---- MODULE Spec2Model ----
(***************************************************************************)
(* The order and payment ledger of the furniture shop backend: the Order   *)
(* documents, the HTTP handlers that create and mutate them, and the       *)
(* payment gateway sessions the handlers open.                             *)
(*                                                                         *)
(* Money is in centavos, the unit of the gateway: a price, fee or stored    *)
(* amount of the program is the number v with Math.round(v * 100) equal to *)
(* the model's integer. A product with 0.3 or 0.7 need not be a whole      *)
(* number of centavos; Pct gives the centavos it is read as.               *)
(*                                                                         *)
(* A handler that awaits between reading an order and saving it is two     *)
(* steps, Request and Save, with the request in `inflight` in between.     *)
(* Spec runs one request at a time (a Save follows its Request at once);   *)
(* ConcSpec lets requests overlap at their awaits.                         *)
(***************************************************************************)
EXTENDS Integers, Sequences, FiniteSets, TLC

\* ------------------------------------------------------------------ bounds
MaxOrders == 1
MaxSessions == 2
MaxInflight == 2
MaxCounter == 1
MaxAttempts == 3
MaxLines == 2
MaxQuantity == 2

\* ----------------------------------------------------------- callers, auth
Null == "null"

Anon == [id |-> "none", role |-> "none"]
Owner == [id |-> "u1", role |-> "user"]
Other == [id |-> "u2", role |-> "user"]
Admin == [id |-> "a1", role |-> "admin"]
Callers == {Anon, Owner, Other, Admin}
Customers == {Owner}

\* authenticateToken: the request carries a resolved {id, role}.
Authenticated(c) == c.role # "none"

\* authorizeRoles("admin")
HasRole(c, role) == c.role = role

\* ------------------------------------------------------------------ catalog
ItemIds == {"chair", "table", "lamp", "stool", "cushion"}

\* Prices in centavos: 1000.00, 10000.00, 500.00, 2000.00 and 98.75 pesos.
Catalog ==
  [chair |-> [price |-> 100000, is_customizable |-> FALSE],
   table |-> [price |-> 1000000, is_customizable |-> TRUE],
   lamp  |-> [price |-> 50000, is_customizable |-> FALSE],
   stool |-> [price |-> 200000, is_customizable |-> TRUE],
   cushion |-> [price |-> 9875, is_customizable |-> TRUE]]

\* A cart entry as the checkout page holds it: the populated item and a quantity.
CartNormal == << [item |-> "chair", quantity |-> 2] >>
CartMixed == << [item |-> "table", quantity |-> 1], [item |-> "lamp", quantity |-> 1] >>
CartSmall == << [item |-> "stool", quantity |-> 1] >>
Carts == {CartNormal, CartMixed, CartSmall}

PaymentTypes == {"full_payment", "down_payment"}

\* deliveryOption with the shipping fee the checkout page sets for it
\* (pickup: 0; shipping: 1000 for Rizal, 1500 for Metro Manila).
Deliveries ==
  {[deliveryOption |-> "pickup", shippingFee |-> 0],
   [deliveryOption |-> "shipping", shippingFee |-> 150000]}

\* --------------------------------------------------------------- the schema
StatusEnum ==
  {"Pending", "On Process", "Ready for Pickup", "Delivered", "Picked Up",
   "Cancelled", "Requesting for Refund", "Refunded"}

PaymentStatusEnum ==
  {"Downpayment Received", "Pending Full Payment", "Fully Paid",
   "Refund Requested", "Refunded"}

\* transactionHash values: absent, the client's `${userId}-${counter}`, or a
\* gateway session id (complete-payment stores one in this field).
NoHash == << >>
NoTransactionId == << >>
ClientHash(userId, counter) == << userId, counter >>
SessionId(n) == << "cs", n >>

VARIABLES
  orders,     \* the Order collection: a sequence, an order's id is its index
  sessions,   \* checkout sessions the gateway has created, in order
  inflight,   \* requests that have read and not yet saved
  sales,      \* Item.sales per item
  cart,       \* per user, the _ids of the cart's lines
  createLog,  \* history: (transactionHash, orderId) of every create response
  last,       \* the last response sent, with the request it answers
  localStorage, \* the browser's localStorage: the logged-in user, the order counters
  issued,     \* history: the transactionHash of every checkout attempt of the browser
  checkout    \* the checkout page: the selection, its payment plan, its gateway session

vars ==
  << orders, sessions, inflight, sales, cart, createLog, last, localStorage, issued,
     checkout >>
ledger == << orders, sessions, inflight, sales, cart, createLog, last >>
browser == << localStorage, issued, checkout >>

\* The ids a request can name; an id is of no order until that order is created.
OrderIds == 1..MaxOrders
Exists(id) == id \in 1..Len(orders)

\* ------------------------------------------------------------ pure helpers
IsCustomized(entry) == Catalog[entry.item].is_customizable
IsNormal(entry) == ~Catalog[entry.item].is_customizable

RECURSIVE SumLines(_)
\* entries.reduce((sum, entry) => sum + entry.item.price * entry.quantity, 0)
SumLines(entries) ==
  IF entries = << >> THEN 0
  ELSE Catalog[Head(entries).item].price * Head(entries).quantity
       + SumLines(Tail(entries))

\* x * 0.3 and x * 0.7 (p = 30, 70) in centavos: Math.round(v * 100), which
\* rounds a half centavo up.
Pct(x, p) == (x * p + 50) \div 100

\* hasCustomizedItems() of the checkout page
hasCustomizedItems(entries) ==
  \E i \in 1..Len(entries) : Catalog[entries[i].item].is_customizable

\* calculatePaymentAmounts with the 30% / 70% split taken of the whole cart.
calculatePaymentAmounts_SplitsWholeCart(entries) ==
  LET customizedTotal == SumLines(SelectSeq(entries, IsCustomized))
      normalTotal == SumLines(SelectSeq(entries, IsNormal))
  IN [customizedTotal |-> customizedTotal,
      normalTotal |-> normalTotal,
      downPaymentAmount |-> Pct(customizedTotal + normalTotal, 30),
      remainingBalance |-> Pct(customizedTotal + normalTotal, 70),
      fullAmount |-> customizedTotal + normalTotal]

\* calculatePaymentAmounts() of the checkout page
calculatePaymentAmounts(entries) ==
  LET customizedTotal == SumLines(SelectSeq(entries, IsCustomized))
      normalTotal == SumLines(SelectSeq(entries, IsNormal))
  IN [customizedTotal |-> customizedTotal,
      normalTotal |-> normalTotal,
      downPaymentAmount |-> Pct(customizedTotal, 30) + normalTotal,
      remainingBalance |-> Pct(customizedTotal, 70),
      fullAmount |-> customizedTotal + normalTotal]

\* getActualPaymentAmount() of the checkout page
getActualPaymentAmount(entries, paymentType) ==
  IF hasCustomizedItems(entries) /\ paymentType = "down_payment"
    THEN Pct(SumLines(SelectSeq(entries, IsCustomized)), 30)
         + SumLines(SelectSeq(entries, IsNormal))
    ELSE SumLines(entries)

\* The items of orderData: one line per selected entry.
OrderDataItems(entries) ==
  [i \in 1..Len(entries) |->
     [item |-> entries[i].item,
      quantity |-> entries[i].quantity,
      price |-> Catalog[entries[i].item].price,
      customH |-> Null, customW |-> Null, customL |-> Null,
      legsFrameMaterial |-> Null, tabletopMaterial |-> Null]]

\* orderData of handleCheckout: the body later posted to POST /api/orders.
handleCheckout(userId, counter, entries, paymentType, delivery) ==
  LET total == SumLines(entries)
      grandTotal == getActualPaymentAmount(entries, paymentType) + delivery.shippingFee
  IN [amount |-> total,
      totalWithShipping |-> delivery.shippingFee + total,
      paidAmount |-> grandTotal,
      paymentType |-> IF hasCustomizedItems(entries) THEN paymentType ELSE "full_payment",
      deliveryOption |-> delivery.deliveryOption,
      shippingFee |-> delivery.shippingFee,
      scheduled |-> delivery.deliveryOption = "shipping",
      transactionHash |-> ClientHash(userId, counter),
      items |-> OrderDataItems(entries)]


\* itemsPayload of handleCheckout: per entry the unit price to charge now,
\* parseFloat((price * 0.3).toFixed(2)) for a customized entry under down_payment.
itemsPayload(entries, paymentType) ==
  [i \in 1..Len(entries) |->
     [id |-> entries[i].item,
      price |-> IF hasCustomizedItems(entries) /\ paymentType = "down_payment"
                   /\ IsCustomized(entries[i])
                  THEN Pct(Catalog[entries[i].item].price, 30)
                  ELSE Catalog[entries[i].item].price,
      quantity |-> entries[i].quantity]]

\* The body handleCheckout posts to /api/create-checkout-session.
CheckoutSessionBody(entries, paymentType, delivery) ==
  [amount |-> getActualPaymentAmount(entries, paymentType) + delivery.shippingFee,
   items |-> itemsPayload(entries, paymentType),
   shippingFee |-> delivery.shippingFee,
   deliveryOption |-> delivery.deliveryOption]

\* checkoutData of POST /api/create-checkout-session: a line per item, a line
\* for the shipping fee, and the total, all in centavos.
checkoutData(body) ==
  LET product_lines == [i \in 1..Len(body.items) |->
                          [amount |-> body.items[i].price,
                           name |-> body.items[i].id,
                           quantity |-> body.items[i].quantity]]
  IN [line_items |->
        IF body.deliveryOption = "shipping" /\ body.shippingFee > 0
          THEN Append(product_lines,
                 [amount |-> body.shippingFee, name |-> "Shipping Fee", quantity |-> 1])
          ELSE product_lines,
      amount |-> body.amount]

\* ------------------------------------------------------------ request inputs
\* Tokens for deliveryDate: none, the scheduled date of the checkout, new Date().
ScheduledDate == "scheduledDate"
Now == "now"

\* paidAmount values a client can put in the body instead of the page's grandTotal.
ForgedPaidAmounts == {100}

\* The bodies the checkout page builds for a customer.
CheckoutBodies(c) ==
  { handleCheckout(c.id, n, e, pt, d) :
      n \in 1..MaxCounter, e \in Carts, pt \in PaymentTypes, d \in Deliveries }

\* Bodies of POST /api/orders: the page's, and the same with another paidAmount.
Bodies(c) ==
  CheckoutBodies(c)
  \cup { [b EXCEPT !.paidAmount = p] : b \in CheckoutBodies(c), p \in ForgedPaidAmounts }

ProofFiles == {Null, "proof1", "proof2"}

\* Statuses an admin can ask for: the schema's, one outside it, and none.
RequestedStatuses == StatusEnum \cup {"shipped", ""}

\* The id of an event whose data.attributes carries no data object.
NoSessionData == << "no data" >>

WebhookEvents ==
  { [type |-> "malformed", id |-> NoTransactionId],
    [type |-> "payment.paid", id |-> SessionId(1)],
    [type |-> "checkout_session.completed", id |-> NoSessionData] }
  \cup { [type |-> "checkout_session.completed", id |-> SessionId(n)] : n \in 1..MaxSessions }

\* ------------------------------------------------------------- localStorage
\* The keys the checkout reads: userId (Null: not set) and, per user id, the
\* number stored under `orderCounter_${userId}`; a key that is not set reads as
\* 0 (getItem(counterKey) || "0").
StorageUsers == {Owner.id, Other.id, "anon"}
EmptyStorage == [userId |-> Null, orderCounter |-> [u \in StorageUsers |-> 0]]

\* ------------------------------------------------------------ checkout page
\* The selections of the checkout page: up to MaxLines cart entries.
CartEntries == [item : ItemIds, quantity : 1..MaxQuantity]
Selections == UNION { [1..n -> CartEntries] : n \in 1..MaxLines }

NoPlan ==
  [customizedTotal |-> 0, normalTotal |-> 0, downPaymentAmount |-> 0,
   remainingBalance |-> 0, fullAmount |-> 0]
NoSession == [line_items |-> << >>, amount |-> 0]

\* The page with these entries selected and nothing computed yet.
Selected(entries, paymentType, delivery) ==
  [stage |-> "selected", entries |-> entries, paymentType |-> paymentType,
   delivery |-> delivery, plan |-> NoPlan, session |-> NoSession]

\* No checkout page is open.
NoCheckout ==
  [stage |-> "closed", entries |-> << >>, paymentType |-> "full_payment",
   delivery |-> [deliveryOption |-> "pickup", shippingFee |-> 0],
   plan |-> NoPlan, session |-> NoSession]

\* ---------------------------------------------------------------- responses
Response(op, c, id, code) ==
  [op |-> op, caller |-> c, order |-> id, code |-> code,
   orderId |-> 0, isDuplicate |-> FALSE]

Init ==
  /\ orders = << >>
  /\ sessions = << >>
  /\ inflight = << >>
  /\ sales = [i \in ItemIds |-> 0]
  /\ cart = [u \in {Owner.id, Other.id} |-> IF u = Owner.id THEN {<< "cl", 1 >>} ELSE {}]
  /\ createLog = {}
  /\ last = Response("none", Anon, 0, 0)
  /\ localStorage = EmptyStorage
  /\ issued = << >>
  /\ checkout = NoCheckout

\* ------------------------------------------------------------ document store
\* Mongoose's save(): $set of the paths whose assigned value differs from the
\* value the document was loaded with.
ModifiedPaths(doc, assigned) ==
  [f \in {g \in DOMAIN assigned : doc[g] # assigned[g]} |-> assigned[f]]

\* updateOne({_id}, {$set: set})
ApplySet(doc, set) ==
  [f \in DOMAIN doc |-> IF f \in DOMAIN set THEN set[f] ELSE doc[f]]

RemoveAt(seq, i) == SubSeq(seq, 1, i - 1) \o SubSeq(seq, i + 1, Len(seq))

CreatesInFlight == Len(SelectSeq(inflight, LAMBDA r : r.kind = "create"))

\* The order's lines joined with the catalog (populate("items.item")).
HasCustomizableLine(o) ==
  \E k \in 1..Len(o.items) : Catalog[o.items[k].item].is_customizable

\* ------------------------------------------------------- POST /api/orders
\* PaymentFields with status 'On Process' for pickup orders too.
PaymentFields_NoPickupStatus(body) ==
  LET hasCustomizableItems ==
        \E k \in 1..Len(body.items) : Catalog[body.items[k].item].is_customizable
  IN IF hasCustomizableItems
       THEN IF body.paymentType = "full_payment"
              THEN [downPayment |-> body.amount, balance |-> 0,
                    paymentStatus |-> "Fully Paid", status |-> "On Process"]
              ELSE [downPayment |-> body.paidAmount,
                    balance |-> body.amount - body.paidAmount,
                    paymentStatus |-> "Downpayment Received", status |-> "On Process"]
       ELSE [downPayment |-> body.amount, balance |-> 0,
             paymentStatus |-> "Fully Paid", status |-> "On Process"]

\* The payment fields the handler computes from the body.
PaymentFields(body) ==
  LET hasCustomizableItems ==
        \E k \in 1..Len(body.items) : Catalog[body.items[k].item].is_customizable
      paidStatus == IF body.deliveryOption = "pickup" THEN "Ready for Pickup" ELSE "On Process"
  IN IF hasCustomizableItems
       THEN IF body.paymentType = "full_payment"
              THEN [downPayment |-> body.amount, balance |-> 0,
                    paymentStatus |-> "Fully Paid", status |-> paidStatus]
              ELSE [downPayment |-> body.paidAmount,
                    balance |-> body.amount - body.paidAmount,
                    paymentStatus |-> "Downpayment Received", status |-> "On Process"]
       ELSE [downPayment |-> body.amount, balance |-> 0,
             paymentStatus |-> "Fully Paid", status |-> paidStatus]

\* orderData
OrderData(c, body) ==
  LET pay == PaymentFields(body)
  IN [user |-> c.id,
      amount |-> body.amount,
      totalWithShipping |-> body.totalWithShipping,
      downPayment |-> pay.downPayment,
      balance |-> pay.balance,
      paymentStatus |-> pay.paymentStatus,
      status |-> pay.status,
      transactionHash |-> body.transactionHash,
      transactionId |-> NoTransactionId,
      items |-> body.items,
      deliveryOption |-> body.deliveryOption,
      shippingFee |-> body.shippingFee,
      deliveryDate |-> IF body.scheduled THEN ScheduledDate ELSE Null,
      deliveryProof |-> Null]

\* The duplicate check, then (no duplicate) the order is built and awaits its save.
\* capacity bounds the orders of the run.
CreateOrderRequest(c, body, capacity) ==
  LET dups == {id \in 1..Len(orders) : orders[id].transactionHash = body.transactionHash}
  IN
  IF ~Authenticated(c)
    THEN /\ last' = Response("create", c, 0, 401)
         /\ UNCHANGED << orders, sessions, inflight, sales, cart, createLog >>
  ELSE IF body.transactionHash # NoHash /\ dups # {}
    THEN \E existing \in dups :
           /\ last' = [Response("create", c, 0, 200) EXCEPT
                         !.orderId = existing, !.isDuplicate = TRUE]
           /\ createLog' = createLog \cup {<< body.transactionHash, existing >>}
           /\ UNCHANGED << orders, sessions, inflight, sales, cart >>
  ELSE /\ Len(inflight) < MaxInflight
       /\ Len(orders) + CreatesInFlight < capacity
       /\ inflight' = Append(inflight,
            [kind |-> "create", caller |-> c, order |-> 0,
             hash |-> body.transactionHash, body |-> body, doc |-> OrderData(c, body)])
       /\ UNCHANGED << orders, sessions, sales, cart, createLog, last >>

\* new Order(orderData); await order.save()
CreateOrderSave(i) ==
  /\ i \in 1..Len(inflight)
  /\ inflight[i].kind = "create"
  /\ LET r == inflight[i]
         id == Len(orders) + 1
     IN /\ orders' = Append(orders, r.doc)
        /\ last' = [Response("create", r.caller, 0, 201) EXCEPT !.orderId = id]
        /\ createLog' = createLog \cup {<< r.hash, id >>}
  /\ inflight' = RemoveAt(inflight, i)
  /\ UNCHANGED << sessions, sales, cart >>

\* ------------------------------------ POST /api/orders/:id/complete-payment
RECURSIVE customizedTotal(_)
\* the handler's sum of price * quantity over the lines whose item is customizable
customizedTotal(lines) ==
  IF lines = << >> THEN 0
  ELSE (IF Catalog[Head(lines).item].is_customizable
          THEN Head(lines).price * Head(lines).quantity ELSE 0)
       + customizedTotal(Tail(lines))

\* PaidInFull with the merchandise amount as downPayment.
PaidInFull_AmountAsDownPayment(order, sessionId) ==
  [transactionHash |-> sessionId,
   paymentStatus |-> "Fully Paid",
   balance |-> 0,
   downPayment |-> order.amount]

\* PaidInFull without the reset of balance.
PaidInFull_KeepsBalance(order, sessionId) ==
  [transactionHash |-> sessionId,
   paymentStatus |-> "Fully Paid",
   downPayment |-> order.totalWithShipping]

\* PaidInFull that also raises amount to the total with shipping.
PaidInFull_RaisesAmount(order, sessionId) ==
  [transactionHash |-> sessionId,
   paymentStatus |-> "Fully Paid",
   balance |-> 0,
   downPayment |-> order.totalWithShipping,
   amount |-> order.totalWithShipping]

\* What the handler assigns to the order once the gateway has created the session.
PaidInFull(order, sessionId) ==
  [transactionHash |-> sessionId,
   paymentStatus |-> "Fully Paid",
   balance |-> 0,
   downPayment |-> order.totalWithShipping]

\* CompletePaymentRequest that marks the order paid before it calls the gateway.
CompletePaymentRequest_PaidBeforeGateway(c, id, gatewayOk) ==
  LET Fail(code) ==
        /\ last' = Response("completePayment", c, id, code)
        /\ UNCHANGED << orders, sessions, inflight, sales, cart, createLog >>
  IN
  IF ~Authenticated(c) THEN Fail(401)
  ELSE IF ~Exists(id) THEN Fail(404)
  ELSE IF orders[id].user # c.id THEN Fail(403)
  ELSE IF orders[id].balance <= 0 THEN Fail(400)
  ELSE IF ~gatewayOk
    THEN /\ orders' = [orders EXCEPT ![id].paymentStatus = "Fully Paid", ![id].balance = 0]
         /\ last' = Response("completePayment", c, id, 500)
         /\ UNCHANGED << sessions, inflight, sales, cart, createLog >>
  ELSE LET order == orders[id]
           sessionId == SessionId(Len(sessions) + 1)
           assigned == PaidInFull(order, sessionId)
       IN /\ Len(sessions) < MaxSessions
          /\ Len(inflight) < MaxInflight
          /\ sessions' = Append(sessions, [order |-> id, amount |-> order.balance])
          /\ inflight' = Append(inflight,
               [kind |-> "completePayment", caller |-> c, order |-> id,
                hash |-> sessionId, doc |-> ModifiedPaths(order, assigned)])
          /\ UNCHANGED << orders, sales, cart, createLog, last >>

\* Reads the order, checks the guards and asks the gateway for a session of
\* exactly the balance; gatewayOk is whether the gateway call succeeds.
CompletePaymentRequest(c, id, gatewayOk) ==
  LET Fail(code) ==
        /\ last' = Response("completePayment", c, id, code)
        /\ UNCHANGED << orders, sessions, inflight, sales, cart, createLog >>
  IN
  IF ~Authenticated(c) THEN Fail(401)
  ELSE IF ~Exists(id) THEN Fail(404)
  ELSE IF orders[id].user # c.id THEN Fail(403)
  ELSE IF orders[id].balance <= 0 THEN Fail(400)
  ELSE IF ~gatewayOk THEN Fail(500)
  ELSE LET order == orders[id]
           sessionId == SessionId(Len(sessions) + 1)
           assigned == PaidInFull(order, sessionId)
       IN /\ Len(sessions) < MaxSessions
          /\ Len(inflight) < MaxInflight
          \* amountToPay = Math.round(order.balance * 100): the balance in centavos
          /\ sessions' = Append(sessions, [order |-> id, amount |-> order.balance])
          /\ inflight' = Append(inflight,
               [kind |-> "completePayment", caller |-> c, order |-> id,
                hash |-> sessionId, doc |-> ModifiedPaths(order, assigned)])
          /\ UNCHANGED << orders, sales, cart, createLog, last >>

\* await order.save(), then the checkout URL is returned
CompletePaymentSave(i) ==
  /\ i \in 1..Len(inflight)
  /\ inflight[i].kind = "completePayment"
  /\ LET r == inflight[i]
     IN /\ orders' = [orders EXCEPT ![r.order] = ApplySet(@, r.doc)]
        /\ last' = Response("completePayment", r.caller, r.order, 200)
  /\ inflight' = RemoveAt(inflight, i)
  /\ UNCHANGED << sessions, sales, cart, createLog >>

\* ------------------------------------------------ POST /api/paymongo-webhook
\* _ids of the order's line subdocuments, generated when the order is built.
LineIds(id) == { << "ol", id, k >> : k \in 1..Len(orders[id].items) }

RECURSIVE SoldQuantity(_, _)
\* what the loop of $inc adds to one item's sales
SoldQuantity(lines, item) ==
  IF lines = << >> THEN 0
  ELSE (IF Head(lines).item = item THEN Head(lines).quantity ELSE 0)
       + SoldQuantity(Tail(lines), item)

Webhook(event) ==
  LET found == {id \in 1..Len(orders) : orders[id].transactionId = event.id}
  IN
  \* JSON.parse, or reading event.data.attributes.data.id, throws: the catch block
  IF \/ event.type = "malformed"
     \/ event.type = "checkout_session.completed" /\ event.id = NoSessionData
    THEN /\ last' = Response("webhook", Anon, 0, 400)
         /\ UNCHANGED << orders, sessions, inflight, sales, cart, createLog >>
  ELSE IF event.type = "checkout_session.completed" /\ found # {}
    THEN \E id \in found :
           /\ orders' = [orders EXCEPT ![id].status = "On Process"]
           /\ cart' = [u \in DOMAIN cart |->
                         IF u = orders[id].user THEN cart[u] \ LineIds(id) ELSE cart[u]]
           /\ sales' = [it \in ItemIds |-> sales[it] + SoldQuantity(orders[id].items, it)]
           /\ last' = Response("webhook", Anon, id, 200)
           /\ UNCHANGED << sessions, inflight, createLog >>
  ELSE /\ last' = Response("webhook", Anon, 0, 200)
       /\ UNCHANGED << orders, sessions, inflight, sales, cart, createLog >>

\* ------------------------------------------------ PUT /api/orders/:id/cancel
Cancel(c, id) ==
  IF ~Authenticated(c)
    THEN /\ last' = Response("cancel", c, id, 401)
         /\ UNCHANGED << orders, sessions, inflight, sales, cart, createLog >>
  ELSE
    \* findByIdAndUpdate(id, {status: "cancelled"}) runs before any check
    /\ orders' = IF Exists(id) THEN [orders EXCEPT ![id].status = "cancelled"] ELSE orders
    /\ last' = Response("cancel", c, id,
                 IF ~Exists(id) THEN 404
                 ELSE IF orders[id].user # c.id THEN 403
                 ELSE 200)
    /\ UNCHANGED << sessions, inflight, sales, cart, createLog >>

\* ----------------------------------------------- PUT /api/orders/:id/confirm
Confirm(c, id) ==
  /\ IF ~Exists(id)
       THEN /\ last' = Response("confirm", c, id, 404)
            /\ UNCHANGED orders
       ELSE /\ orders' = [orders EXCEPT ![id].status = "On Process"]
            /\ last' = Response("confirm", c, id, 200)
  /\ UNCHANGED << sessions, inflight, sales, cart, createLog >>

\* ---------------------------------------- PUT /api/orders/:id/request-refund
\* RequestRefund without the check for customized items.
RequestRefund_NoCustomCheck(c, id) ==
  LET Fail(code) ==
        /\ last' = Response("requestRefund", c, id, code)
        /\ UNCHANGED orders
  IN
  /\ IF ~Authenticated(c) THEN Fail(401)
     ELSE IF ~Exists(id) THEN Fail(404)
     ELSE IF orders[id].user # c.id THEN Fail(403)
     ELSE IF orders[id].status # "On Process" THEN Fail(400)
     ELSE /\ orders' = [orders EXCEPT ![id].status = "Requesting for Refund",
                                      ![id].paymentStatus = "Refund Requested"]
          /\ last' = Response("requestRefund", c, id, 200)
  /\ UNCHANGED << sessions, inflight, sales, cart, createLog >>

\* RequestRefund without the check that the order is "On Process".
RequestRefund_NoStatusCheck(c, id) ==
  LET Fail(code) ==
        /\ last' = Response("requestRefund", c, id, code)
        /\ UNCHANGED orders
  IN
  /\ IF ~Authenticated(c) THEN Fail(401)
     ELSE IF ~Exists(id) THEN Fail(404)
     ELSE IF orders[id].user # c.id THEN Fail(403)
     ELSE IF HasCustomizableLine(orders[id]) THEN Fail(400)
     ELSE /\ orders' = [orders EXCEPT ![id].status = "Requesting for Refund",
                                      ![id].paymentStatus = "Refund Requested"]
          /\ last' = Response("requestRefund", c, id, 200)
  /\ UNCHANGED << sessions, inflight, sales, cart, createLog >>

RequestRefund(c, id) ==
  LET Fail(code) ==
        /\ last' = Response("requestRefund", c, id, code)
        /\ UNCHANGED orders
  IN
  /\ IF ~Authenticated(c) THEN Fail(401)
     ELSE IF ~Exists(id) THEN Fail(404)
     ELSE IF orders[id].user # c.id THEN Fail(403)
     ELSE IF orders[id].status # "On Process" THEN Fail(400)
     ELSE IF HasCustomizableLine(orders[id]) THEN Fail(400)
     ELSE /\ orders' = [orders EXCEPT ![id].status = "Requesting for Refund",
                                      ![id].paymentStatus = "Refund Requested"]
          /\ last' = Response("requestRefund", c, id, 200)
  /\ UNCHANGED << sessions, inflight, sales, cart, createLog >>

\* ------------------------------------------------ PUT /api/orders/:id/status
\* AdminStatus that marks the payment refunded along with the status 'Refunded'.
AdminStatus_RefundsPayment(c, id, status) ==
  LET Fail(code) ==
        /\ last' = Response("adminStatus", c, id, code)
        /\ UNCHANGED orders
  IN
  /\ IF ~Authenticated(c) THEN Fail(401)
     ELSE IF ~HasRole(c, "admin") THEN Fail(403)
     ELSE IF status = "" THEN Fail(400)
     ELSE IF ~Exists(id) THEN Fail(404)
     ELSE /\ orders' = [orders EXCEPT
                          ![id].status = status,
                          ![id].paymentStatus = IF status = "Refunded" THEN "Refunded" ELSE @]
          /\ last' = Response("adminStatus", c, id, 200)
  /\ UNCHANGED << sessions, inflight, sales, cart, createLog >>

AdminStatus(c, id, status) ==
  LET Fail(code) ==
        /\ last' = Response("adminStatus", c, id, code)
        /\ UNCHANGED orders
  IN
  /\ IF ~Authenticated(c) THEN Fail(401)
     ELSE IF ~HasRole(c, "admin") THEN Fail(403)
     ELSE IF status = "" THEN Fail(400)
     ELSE IF ~Exists(id) THEN Fail(404)
     ELSE /\ orders' = [orders EXCEPT ![id].status = status]
          /\ last' = Response("adminStatus", c, id, 200)
  /\ UNCHANGED << sessions, inflight, sales, cart, createLog >>

\* ---------------------------------------- POST /api/orders/:id/delivery-proof
\* DeliveryProof that marks every order 'Delivered', pickup orders too.
DeliveryProof_AlwaysDelivered(c, id, file, uploadOk) ==
  LET Fail(code) ==
        /\ last' = Response("deliveryProof", c, id, code)
        /\ UNCHANGED orders
  IN
  /\ IF ~Authenticated(c) THEN Fail(401)
     ELSE IF ~HasRole(c, "admin") THEN Fail(403)
     ELSE IF file = Null THEN Fail(400)
     ELSE IF ~uploadOk THEN Fail(500)
     ELSE IF ~Exists(id) THEN Fail(404)
     ELSE /\ orders' = [orders EXCEPT ![id].status = "Delivered",
                                      ![id].deliveryProof = file,
                                      ![id].deliveryDate = Now]
          /\ last' = Response("deliveryProof", c, id, 200)
  /\ UNCHANGED << sessions, inflight, sales, cart, createLog >>

\* file is the uploaded image (Null: none); uploadOk is whether the image host
\* accepts it, and then its URL is the file's name.
DeliveryProof(c, id, file, uploadOk) ==
  LET Fail(code) ==
        /\ last' = Response("deliveryProof", c, id, code)
        /\ UNCHANGED orders
  IN
  /\ IF ~Authenticated(c) THEN Fail(401)
     ELSE IF ~HasRole(c, "admin") THEN Fail(403)
     ELSE IF file = Null THEN Fail(400)
     ELSE IF ~uploadOk THEN Fail(500)
     ELSE IF ~Exists(id) THEN Fail(404)
     ELSE LET finalStatus ==
                IF orders[id].deliveryOption = "pickup" THEN "Picked Up" ELSE "Delivered"
          IN /\ orders' = [orders EXCEPT ![id].status = finalStatus,
                                         ![id].deliveryProof = file,
                                         ![id].deliveryDate = Now]
             /\ last' = Response("deliveryProof", c, id, 200)
  /\ UNCHANGED << sessions, inflight, sales, cart, createLog >>

\* -------------------------------------------------------------- the browser
\* The login page stores the user it logged in.
Login(u) ==
  /\ localStorage' = [localStorage EXCEPT !.userId = u]
  /\ UNCHANGED << ledger, issued, checkout >>

\* The Logout link of the navigation bar: localStorage.clear().
Logout ==
  /\ localStorage.userId # Null
  /\ localStorage' = EmptyStorage
  /\ UNCHANGED << ledger, issued, checkout >>

\* handleCheckout up to the transactionHash of the attempt.
CheckoutAttempt ==
  LET userId == IF localStorage.userId # Null THEN localStorage.userId ELSE "anon"
      counter == localStorage.orderCounter[userId] + 1
  IN /\ Len(issued) < MaxAttempts
     /\ localStorage' = [localStorage EXCEPT !.orderCounter[userId] = counter]
     /\ issued' = Append(issued, [user |-> userId, hash |-> ClientHash(userId, counter)])
     /\ UNCHANGED << ledger, checkout >>

\* The page computes the payment plan of the selection.
ShowPaymentPlan ==
  /\ checkout.stage = "selected"
  /\ checkout' = [checkout EXCEPT !.stage = "planned",
                                  !.plan = calculatePaymentAmounts(checkout.entries)]
  /\ UNCHANGED << ledger, localStorage, issued >>

\* handleCheckout posts the selection to /api/create-checkout-session, which
\* builds the gateway's checkout session.
CreateCheckoutSession ==
  /\ checkout.stage = "planned"
  /\ checkout' = [checkout EXCEPT
       !.stage = "sent",
       !.session = checkoutData(CheckoutSessionBody(checkout.entries,
                                  checkout.paymentType, checkout.delivery))]
  /\ UNCHANGED << ledger, localStorage, issued >>

\* ------------------------------------------------------------ specifications
\* A request arrives and runs up to its first await on the gateway or the store.
Requests ==
  \/ \E c \in Customers \cup {Anon}, b \in Bodies(Owner) :
       CreateOrderRequest(c, b, MaxOrders)
  \/ \E c \in Callers, id \in OrderIds, ok \in BOOLEAN : CompletePaymentRequest(c, id, ok)
  \/ \E e \in WebhookEvents : Webhook(e)
  \/ \E c \in Callers, id \in OrderIds : Cancel(c, id)
  \/ \E c \in Callers, id \in OrderIds : Confirm(c, id)
  \/ \E c \in Callers, id \in OrderIds : RequestRefund(c, id)
  \/ \E c \in Callers, id \in OrderIds, st \in RequestedStatuses : AdminStatus(c, id, st)
  \/ \E c \in Callers, id \in OrderIds, f \in ProofFiles, ok \in BOOLEAN :
       DeliveryProof(c, id, f, ok)

\* A request that awaited resumes and saves.
Saves ==
  \/ \E i \in 1..Len(inflight) : CreateOrderSave(i)
  \/ \E i \in 1..Len(inflight) : CompletePaymentSave(i)

\* One request at a time: nothing else runs between a request and its save.
Next ==
  \/ inflight = << >> /\ Requests /\ UNCHANGED browser
  \/ Saves /\ UNCHANGED browser

Spec == Init /\ [][Next]_vars

\* Requests overlap at their awaits.
ConcNext ==
  \/ Requests /\ UNCHANGED browser
  \/ Saves /\ UNCHANGED browser

ConcSpec == Init /\ [][ConcNext]_vars

\* A customer's checkout is submitted again after other requests on the order:
\* the owner's requests only, with room for the order a resubmission may add.
RetryNext ==
  \/ /\ inflight = << >>
     /\ \/ \E b \in CheckoutBodies(Owner) : CreateOrderRequest(Owner, b, MaxOrders + 1)
        \/ \E id \in 1..(MaxOrders + 1), ok \in BOOLEAN :
             CompletePaymentRequest(Owner, id, ok)
        \/ \E id \in 1..(MaxOrders + 1) : Cancel(Owner, id)
        \/ \E id \in 1..(MaxOrders + 1) : RequestRefund(Owner, id)
     /\ UNCHANGED browser
  \/ Saves /\ UNCHANGED browser

RetrySpec == Init /\ [][RetryNext]_vars

\* One browser: users log in and out of it and start checkouts.
BrowserNext ==
  \/ \E u \in {Owner.id, Other.id} : Login(u)
  \/ Logout
  \/ CheckoutAttempt

BrowserSpec == Init /\ [][BrowserNext]_vars

\* Checkouts of one customer arrive together: each request runs its duplicate
\* lookup, and saves at any later time.
RaceNext ==
  \/ /\ \E b \in CheckoutBodies(Owner) : CreateOrderRequest(Owner, b, MaxOrders + 1)
     /\ UNCHANGED browser
  \/ /\ \E i \in 1..Len(inflight) : CreateOrderSave(i)
     /\ UNCHANGED browser

RaceSpec == Init /\ [][RaceNext]_vars

\* The checkout page of one selection: its payment plan, then its gateway session.
PageInit ==
  /\ orders = << >>
  /\ sessions = << >>
  /\ inflight = << >>
  /\ sales = [i \in ItemIds |-> 0]
  /\ cart = [u \in {Owner.id, Other.id} |-> IF u = Owner.id THEN {<< "cl", 1 >>} ELSE {}]
  /\ createLog = {}
  /\ last = Response("none", Anon, 0, 0)
  /\ localStorage = EmptyStorage
  /\ issued = << >>
  /\ checkout \in { Selected(e, pt, d) :
                       e \in Selections, pt \in PaymentTypes, d \in Deliveries }

PageNext ==
  \/ ShowPaymentPlan
  \/ CreateCheckoutSession

PageSpec == PageInit /\ [][PageNext]_vars

\* ------------------------------------------------------------------ claims
Ids == 1..Len(orders)

RECURSIVE LinesTotal(_)
LinesTotal(lines) ==
  IF lines = << >> THEN 0
  ELSE Head(lines).price * Head(lines).quantity + LinesTotal(Tail(lines))

ErrorCodes == {400, 401, 403, 404}

\* C1: in every reachable state, every order has
\* downPayment + balance = totalWithShipping.
C1_Reconciles ==
  \A id \in Ids :
    orders[id].downPayment + orders[id].balance = orders[id].totalWithShipping

\* C2: all create responses for one non-empty transactionHash carry the same order
\* id, so one hash never stands for two persisted orders.
C2_Idempotent ==
  \A p \in createLog, q \in createLog :
    (p[1] # NoHash /\ p[1] = q[1]) => p[2] = q[2]

\* C3 as stated: an order with a customizable line never has status
\* 'Requesting for Refund'.
C3_NeverRequestingRefund ==
  \A id \in Ids :
    HasCustomizableLine(orders[id]) => orders[id].status # "Requesting for Refund"

\* C3, amended: the status of an order with a customizable line becomes
\* 'Requesting for Refund' only in an admin's status update, never in a
\* refund-request, webhook, confirm, cancel, delivery-proof or complete-payment.
C3_OnlyAdminSetsRequestingRefund ==
  [][\A id \in Ids :
       ( /\ HasCustomizableLine(orders[id])
         /\ orders[id].status # "Requesting for Refund"
         /\ orders'[id].status = "Requesting for Refund" )
       => (last'.op = "adminStatus" /\ HasRole(last'.caller, "admin"))]_vars

\* The owner asked for a refund of an 'On Process' order with a customizable line
\* and was refused.
C3_Witness ==
  /\ last.op = "requestRefund" /\ last.code = 400
  /\ Exists(last.order)
  /\ orders[last.order].user = last.caller.id
  /\ orders[last.order].status = "On Process"
  /\ HasCustomizableLine(orders[last.order])

\* C4: an existing order's paymentStatus becomes 'Fully Paid', and its balance
\* changes, only in the step of a gateway webhook; complete-payment alone leaves
\* the payment fields as they were.
C4_PaidOnlyByWebhook ==
  [][\A id \in Ids :
       ( \/ orders[id].paymentStatus # "Fully Paid" /\ orders'[id].paymentStatus = "Fully Paid"
         \/ orders'[id].balance # orders[id].balance
         \/ orders'[id].downPayment # orders[id].downPayment )
       => last'.op = "webhook"]_vars

\* C5: a cancel, refund-request, complete-payment, admin status update or
\* delivery-proof that answers with an error leaves every order as it was.
C5_FailedGuardChangesNothing ==
  [][( /\ last' # last
       /\ last'.op \in {"cancel", "requestRefund", "completePayment", "adminStatus",
                        "deliveryProof"}
       /\ last'.code \in ErrorCodes )
     => orders' = orders]_vars

\* C6: at most one gateway session for the remaining balance is ever created for
\* an order, also when complete-payment requests overlap.
C6_OneBalanceSession ==
  \A id \in Ids :
    Cardinality({n \in 1..Len(sessions) : sessions[n].order = id}) <= 1

\* C7: once an order is 'Delivered', 'Picked Up', 'Refunded' or 'Cancelled', no
\* step moves it to 'Pending', 'On Process' or 'Ready for Pickup'.
C7_NoRegress ==
  [][\A id \in Ids :
       orders[id].status \in {"Delivered", "Picked Up", "Refunded", "Cancelled"}
       => orders'[id].status \notin {"Pending", "On Process", "Ready for Pickup"}]_vars

\* C8 as stated: only a webhook step moves an order out of 'Pending'.
C8_OnlyWebhookLeavesPending ==
  [][\A id \in Ids :
       (orders[id].status = "Pending" /\ orders'[id].status # "Pending")
       => last'.op = "webhook"]_vars

\* C8, amended: refund-request and complete-payment never move an order out of
\* 'Pending'; the steps that do are a webhook, confirm, admin status update,
\* cancel or delivery-proof.
C8_LeavesPendingOnlyBy ==
  [][\A id \in Ids :
       (orders[id].status = "Pending" /\ orders'[id].status # "Pending")
       => last'.op \in {"webhook", "confirm", "adminStatus", "cancel", "deliveryProof"}]_vars

\* The owner asked for a refund of a 'Pending' order without customizable lines and
\* was refused, the order still 'Pending'.
C8_Witness ==
  /\ last.op = "requestRefund" /\ last.code = 400
  /\ Exists(last.order)
  /\ orders[last.order].user = last.caller.id
  /\ ~HasCustomizableLine(orders[last.order])
  /\ orders[last.order].status = "Pending"

\* C9: a step changes an order only when the request's caller is authenticated and
\* is an admin or the order's owner.
C9_OnlyAuthorizedMutate ==
  [][\A id \in Ids :
       orders'[id] # orders[id]
       => ( /\ Authenticated(last'.caller)
            /\ (HasRole(last'.caller, "admin") \/ last'.caller.id = orders[id].user) )]_vars

\* C10: an order created with a down payment stores as downPayment 30% of its
\* customized subtotal plus its normal subtotal, and the rest as balance,
\* whatever paidAmount the request carried.
C10_DownPaymentFromLines ==
  \A id \in Ids :
    orders[id].paymentStatus = "Downpayment Received"
    => LET custom == customizedTotal(orders[id].items)
           normal == LinesTotal(orders[id].items) - custom
       IN /\ orders[id].downPayment = Pct(custom, 30) + normal
          /\ orders[id].balance = Pct(custom, 70)

\* C11: an order the checkout page places with paymentType 'down_payment' for a
\* cart with customized lines is created with paymentStatus 'Downpayment Received'
\* and a balance of 70% of its customized subtotal, for every delivery option and
\* shipping fee.
C11_DownPaymentBalance ==
  [][\A i \in 1..Len(inflight) :
       ( /\ CreateOrderSave(i)
         /\ inflight[i].body \in CheckoutBodies(inflight[i].caller)
         /\ HasCustomizableLine(inflight[i].doc)
         /\ inflight[i].body.paymentType = "down_payment" )
       => LET o == orders'[Len(orders')]
          IN /\ o.paymentStatus = "Downpayment Received"
             /\ o.balance = Pct(customizedTotal(o.items), 70)]_vars

\* C12: after a complete-payment request has succeeded (caller is the owner, the
\* balance was positive, the gateway created the session), the order has balance 0,
\* downPayment equal to totalWithShipping and paymentStatus 'Fully Paid'.
C12_CompletedIsPaidInFull ==
  (last.op = "completePayment" /\ last.code = 200)
  => LET o == orders[last.order]
     IN /\ o.balance = 0
        /\ o.downPayment = o.totalWithShipping
        /\ o.paymentStatus = "Fully Paid"

\* The owner completed the payment of an order with a shipping fee.
C12_Witness ==
  /\ last.op = "completePayment" /\ last.code = 200
  /\ orders[last.order].user = last.caller.id
  /\ orders[last.order].shippingFee > 0
  /\ \E n \in 1..Len(sessions) : sessions[n].order = last.order /\ sessions[n].amount > 0

\* C13: a complete-payment request whose gateway call fails answers with an error
\* and leaves the order's paymentStatus, balance, downPayment, transactionHash and
\* status, and the sessions, as they were.
C13_GatewayFailureChangesNothing ==
  [][( /\ last' # last
       /\ last'.op = "completePayment"
       /\ last'.code = 500 )
     => /\ orders' = orders
        /\ sessions' = sessions
        /\ inflight' = inflight]_vars

\* The owner's complete-payment of an order with a positive balance was answered
\* with the gateway's failure.
C13_Witness ==
  /\ last.op = "completePayment" /\ last.code = 500
  /\ Exists(last.order)
  /\ orders[last.order].user = last.caller.id
  /\ orders[last.order].balance > 0
  /\ orders[last.order].paymentStatus = "Downpayment Received"

\* C14: in every reachable state, an order with a positive balance is not
\* 'Fully Paid'.
C14_PositiveBalanceNotFullyPaid ==
  \A id \in Ids :
    orders[id].balance > 0 => orders[id].paymentStatus # "Fully Paid"

\* An order with a positive balance has been delivered, its balance still due.
C14_Witness ==
  \E id \in Ids :
    /\ orders[id].balance > 0
    /\ orders[id].paymentStatus = "Downpayment Received"
    /\ orders[id].status = "Delivered"

\* C15 as stated: a refund-request on an order with a customizable line is
\* answered with InvalidState (400) and changes no order, for every status of the
\* order and every caller.
C15_RefundOfCustomizedIsInvalidState ==
  [][( /\ last' # last
       /\ last'.op = "requestRefund"
       /\ Exists(last'.order)
       /\ HasCustomizableLine(orders[last'.order]) )
     => (last'.code = 400 /\ orders' = orders)]_vars

\* C15, amended: a refund-request on an order with a customizable line always
\* fails and changes no order, for every status and every caller: with
\* InvalidState (400) for the owner, with 401 for an unauthenticated caller and
\* 403 for any other.
C15_RefundOfCustomizedFails ==
  [][( /\ last' # last
       /\ last'.op = "requestRefund"
       /\ Exists(last'.order)
       /\ HasCustomizableLine(orders[last'.order]) )
     => /\ orders' = orders
        /\ last'.code = IF ~Authenticated(last'.caller) THEN 401
                         ELSE IF last'.caller.id # orders[last'.order].user THEN 403
                         ELSE 400]_vars

\* The owner asked for a refund of a delivered order with a customizable line and
\* was refused.
C15_Witness ==
  /\ last.op = "requestRefund" /\ last.code = 400
  /\ Exists(last.order)
  /\ orders[last.order].user = last.caller.id
  /\ orders[last.order].status = "Delivered"
  /\ HasCustomizableLine(orders[last.order])

\* C16: no step changes an existing order's amount, lines or deliveryOption, and
\* no step removes an order.
C16_CreationFieldsFrozen ==
  [][/\ Len(orders') >= Len(orders)
     /\ \A id \in Ids :
          /\ orders'[id].amount = orders[id].amount
          /\ orders'[id].items = orders[id].items
          /\ orders'[id].deliveryOption = orders[id].deliveryOption]_vars

\* An order with a shipping fee was settled by complete-payment and then marked
\* delivered with a proof.
C16_Witness ==
  /\ last.op = "deliveryProof" /\ last.code = 200
  /\ orders[last.order].deliveryProof # Null
  /\ orders[last.order].shippingFee > 0
  /\ \E n \in 1..Len(sessions) : sessions[n].order = last.order

\* C17: an order created with no customizable line, or with customizable lines
\* and paymentType 'full_payment', has paymentStatus 'Fully Paid', downPayment
\* equal to amount, balance 0, and status 'Ready for Pickup' for pickup and
\* 'On Process' otherwise.
C17_FullPaymentFields ==
  [][\A i \in 1..Len(inflight) :
       ( /\ CreateOrderSave(i)
         /\ \/ ~HasCustomizableLine(inflight[i].doc)
            \/ inflight[i].body.paymentType = "full_payment" )
       => LET o == orders'[Len(orders')]
          IN /\ o.paymentStatus = "Fully Paid"
             /\ o.downPayment = o.amount
             /\ o.balance = 0
             /\ o.status = IF o.deliveryOption = "pickup"
                             THEN "Ready for Pickup" ELSE "On Process"]_vars

\* A pickup order without customizable lines has just been created.
C17_Witness ==
  /\ last.op = "create" /\ last.code = 201
  /\ ~HasCustomizableLine(orders[last.orderId])
  /\ orders[last.orderId].deliveryOption = "pickup"
  /\ orders[last.orderId].status = "Ready for Pickup"

\* C18: no two checkout attempts of one logged-in user in a browser carry the
\* same transactionHash, also when the user logs out and in again between them.
C18_HashesNeverRepeat ==
  \A i \in 1..Len(issued), j \in 1..Len(issued) :
    (i # j /\ issued[i].user # "anon" /\ issued[i].user = issued[j].user)
    => issued[i].hash # issued[j].hash

\* C19: a checkout_session.completed webhook with the id of a session created for
\* an order finds that order, sets its status to 'On Process' and adds the
\* quantities of its lines to the sales counters.
C19_WebhookConfirmsOrder ==
  [][\A n \in 1..Len(sessions) :
       Webhook([type |-> "checkout_session.completed", id |-> SessionId(n)])
       => LET id == sessions[n].order
          IN /\ last'.order = id
             /\ orders'[id].status = "On Process"
             /\ sales' = [it \in ItemIds |->
                            sales[it] + SoldQuantity(orders[id].items, it)]]_vars

\* C20: a cancel by the order's owner sets status to 'Cancelled' and changes no
\* other field of the order.
C20_OwnerCancelSetsCancelled ==
  [][( /\ last' # last
       /\ last'.op = "cancel"
       /\ last'.code = 200 )
     => orders' = [orders EXCEPT ![last'.order].status = "Cancelled"]]_vars

\* C21: an admin's delivery-proof upload on an existing order sets status to
\* 'Picked Up' for a pickup order and 'Delivered' otherwise, deliveryProof to the
\* uploaded URL and deliveryDate to the current time, and nothing else; on an id
\* of no order it answers 404 and changes no order.
C21_DeliveryProofEffects ==
  [][\A id \in OrderIds, f \in ProofFiles \ {Null} :
       DeliveryProof(Admin, id, f, TRUE)
       => IF Exists(id)
            THEN /\ last'.code = 200
                 /\ orders' = [orders EXCEPT
                      ![id].status = IF orders[id].deliveryOption = "pickup"
                                       THEN "Picked Up" ELSE "Delivered",
                      ![id].deliveryProof = f,
                      ![id].deliveryDate = Now]
            ELSE last'.code = 404 /\ orders' = orders]_vars

\* An admin's upload has marked a pickup order 'Picked Up'.
C21_Witness ==
  /\ last.op = "deliveryProof" /\ last.code = 200
  /\ HasRole(last.caller, "admin")
  /\ orders[last.order].deliveryOption = "pickup"
  /\ orders[last.order].status = "Picked Up"
  /\ orders[last.order].deliveryProof # Null
  /\ orders[last.order].deliveryDate = Now

\* C22: once an order has a deliveryProof, no step replaces it.
C22_DeliveryProofSetOnce ==
  [][\A id \in Ids :
       orders[id].deliveryProof # Null
       => orders'[id].deliveryProof = orders[id].deliveryProof]_vars

\* C23: an admin status update with a requested value sets the order's status to
\* that value, whatever the current status, and leaves every other field of the
\* order (paymentStatus, downPayment, balance, amount, totalWithShipping,
\* transactionHash among them) as it was.
C23_AdminStatusFrame ==
  [][\A id \in Ids, st \in RequestedStatuses \ {""} :
       AdminStatus(Admin, id, st)
       => /\ last'.code = 200
          /\ orders' = [orders EXCEPT ![id].status = st]]_vars

\* An admin has set a delivered order to 'Refunded'.
C23_Witness ==
  /\ last.op = "adminStatus" /\ last.code = 200
  /\ HasRole(last.caller, "admin")
  /\ orders[last.order].status = "Refunded"
  /\ orders[last.order].deliveryProof # Null

\* C24: every checkout_session.completed event is answered with success, also
\* when no order matches its session id or when its processing fails; when no
\* order matches, no order, cart or sales counter changes.
C24_WebhookAlwaysAcknowledged ==
  [][\A e \in WebhookEvents :
       (e.type = "checkout_session.completed" /\ Webhook(e))
       => /\ last'.code = 200
          /\ last'.order = 0 => (orders' = orders /\ cart' = cart /\ sales' = sales)]_vars

RECURSIVE LineItemsTotal(_)
LineItemsTotal(line_items) ==
  IF line_items = << >> THEN 0
  ELSE Head(line_items).amount * Head(line_items).quantity
       + LineItemsTotal(Tail(line_items))

\* C25: for every selection with no customizable line, the payment plan has
\* downPaymentAmount equal to fullAmount and remainingBalance 0.
C25_NormalCartPaysInFull ==
  (checkout.stage \in {"planned", "sent"} /\ ~hasCustomizedItems(checkout.entries))
  => /\ checkout.plan.downPaymentAmount = checkout.plan.fullAmount
     /\ checkout.plan.remainingBalance = 0

\* The plan of a selection of two normal lines has been computed.
C25_Witness ==
  /\ checkout.stage = "planned"
  /\ Len(checkout.entries) = 2
  /\ ~hasCustomizedItems(checkout.entries)
  /\ checkout.plan.fullAmount = SumLines(checkout.entries)
  /\ checkout.plan.fullAmount > 0

\* C26: for every selection with customizable lines, the payment plan has
\* downPaymentAmount + remainingBalance equal to fullAmount in centavos, with
\* downPaymentAmount 30% of the customized subtotal plus the normal subtotal and
\* remainingBalance 70% of the customized subtotal.
C26_PlanAddsUp ==
  (checkout.stage \in {"planned", "sent"} /\ hasCustomizedItems(checkout.entries))
  => LET plan == checkout.plan
     IN /\ plan.downPaymentAmount = Pct(plan.customizedTotal, 30) + plan.normalTotal
        /\ plan.remainingBalance = Pct(plan.customizedTotal, 70)
        /\ plan.downPaymentAmount + plan.remainingBalance = plan.fullAmount

\* C30: in every checkout session the page has requested, the line items' amount
\* times quantity, the shipping-fee line included, add up to the session's total
\* amount, round(grandTotal * 100).
C30_LineItemsAddUp ==
  checkout.stage = "sent"
  => LineItemsTotal(checkout.session.line_items) = checkout.session.amount

\* C27: when checkouts carrying one transactionHash are processed together, at
\* most one order with that transactionHash is persisted.
C27_OneOrderPerHash ==
  \A i \in Ids, j \in Ids :
    (i # j /\ orders[i].transactionHash # NoHash)
    => orders[i].transactionHash # orders[j].transactionHash

\* C28: every order placed through the checkout page has, in every reachable
\* state, a balance of at least 0 and a downPayment of at most totalWithShipping.
C28_BalanceWithinTotal ==
  \A id \in Ids :
    /\ orders[id].balance >= 0
    /\ orders[id].downPayment <= orders[id].totalWithShipping

\* C29: in every reachable state every order's status is one of the eight values
\* of the schema's enum.
C29_StatusInEnum ==
  \A id \in Ids : orders[id].status \in StatusEnum

====
